---- MODULE Spec2Model ----
(***************************************************************************)
(* Model of zamunda_api.zamunda.Zamunda: login (credential check, POST     *)
(* loop with retry/backoff), search, search_multi and get_torrent.         *)
(*                                                                         *)
(* One behaviour is one call of a public method (op) on a fresh Zamunda    *)
(* object.  The remote site is the environment: the outcome of every       *)
(* login POST and the page answered to every search GET are chosen         *)
(* nondeterministically when the request is made; the answer to a torrent  *)
(* download is a fixed sample table (SiteGet).                             *)
(*                                                                         *)
(* Python values: None is <<>> and any other value x is <<x>> wherever a   *)
(* variable or field can hold None (Some / None below).  Strings that the  *)
(* code inspects with startswith / endswith are sequences of tokens.       *)
(***************************************************************************)
EXTENDS Integers, Sequences, FiniteSets, TLC

VARIABLES
    op,                \* the public method called: "login", "search", "search_multi"
    user, password,    \* arguments
    retries, backoff_factor,
    provide_infohash, provide_files,
    queries,           \* search_multi's queries (search: the one-element <<ss>>)
    pc,                \* position of the call
    attempt,           \* login's local counter
    outs,              \* outcomes of the POSTs of the running login call, in order
    sleeps,            \* arguments of time.sleep in the running login call, in order
    logins,            \* number of calls of login
    login_exc,         \* what login raised (None: nothing so far)
    pages,             \* responses to the search GETs, in order
    fetched,           \* hrefs passed to get_torrent, in order
    data,              \* the result list being accumulated (data / all_results)
    ret,               \* value returned by the public method (None until then)
    exc                \* exception that left the public method (None: none)

vars == <<op, user, password, retries, backoff_factor, provide_infohash,
          provide_files, queries, pc, attempt, outs, sleeps, logins, login_exc,
          pages, fetched, data, ret, exc>>

----------------------------------------------------------------------------
(* Bounds of the exploration *)

MaxRetries == 2
MaxPosts == 4
MaxQueries == 2
MaxRows == 2

(* Program constants *)
DefaultRetries == 3
DefaultBackoff == 2

----------------------------------------------------------------------------
(* Python values *)

None == <<>>
Some(x) == <<x>>
Last(s) == s[Len(s)]

RECURSIVE Pow(_, _)
Pow(b, e) == IF e = 0 THEN 1 ELSE b * Pow(b, e - 1)

StartsWith(s, p) == Len(s) >= Len(p) /\ SubSeq(s, 1, Len(p)) = p
EndsWith(s, p) == Len(s) >= Len(p) /\ SubSeq(s, Len(s) - Len(p) + 1, Len(s)) = p

Range(s) == {s[i] : i \in 1..Len(s)}

(* The sequences of at most n distinct elements of S *)
RECURSIVE SeqsUpTo(_, _)
SeqsUpTo(S, n) ==
    IF n = 0 THEN {<<>>}
    ELSE LET shorter == SeqsUpTo(S, n - 1)
         IN  shorter \cup UNION {{Append(s, x) : x \in S \ Range(s)} : s \in shorter}

----------------------------------------------------------------------------
(* Exception classes: every class with the classes an except clause naming *)
(* them matches (the class itself and its bases).                          *)

Bases(cls) ==
    CASE cls = "requests.ConnectionError" ->
            {"requests.ConnectionError", "requests.RequestException", "OSError", "Exception"}
      [] cls = "requests.ConnectTimeout" ->
            {"requests.ConnectTimeout", "requests.ConnectionError", "requests.Timeout",
             "requests.RequestException", "OSError", "Exception"}
      [] cls = "requests.ReadTimeout" ->
            {"requests.ReadTimeout", "requests.Timeout",
             "requests.RequestException", "OSError", "Exception"}
      [] cls = "requests.HTTPError" ->
            {"requests.HTTPError", "requests.RequestException", "OSError", "Exception"}
      [] cls = "requests.TooManyRedirects" ->
            {"requests.TooManyRedirects", "requests.RequestException", "OSError", "Exception"}
      [] cls = "ConnectionResetError" ->
            {"ConnectionResetError", "ConnectionError", "OSError", "Exception"}
      [] OTHER -> {cls, "Exception"}

(* What session.post can do: answer with a status code, or raise.  The      *)
(* requests transport raises its own classes; ConnectionResetError stands   *)
(* for a builtin ConnectionError reaching the caller unwrapped (a custom    *)
(* transport adapter), the only class the first except clause matches.      *)
Statuses == {200, 204, 404, 503}
PostRaises == {"requests.ConnectionError", "requests.ConnectTimeout", "requests.ReadTimeout",
               "requests.TooManyRedirects", "ConnectionResetError"}
Answered(code) == [kind |-> "status", code |-> code, cls |-> "-"]
Raised(cls) == [kind |-> "raise", code |-> 0, cls |-> cls]
PostOutcomes == {Answered(c) : c \in Statuses} \cup {Raised(c) : c \in PostRaises}

(* response.raise_for_status(): raises HTTPError for 4xx and 5xx only *)
RaiseForStatus(code) == 400 <= code /\ code < 600

----------------------------------------------------------------------------
(* login *)

(* Fault injection for C4: "and" in place of "or" on line 37 *)
CredentialsOk_And(u, p) == u # "" \/ p # ""

(* line 37: "if not user or not password" *)
CredentialsOk(u, p) == u # "" /\ p # ""

(* Fault injection for C8: the retry clause also catching Timeout *)
ExceptClause_RetryTimeout(cls) ==
    IF "ConnectionError" \in Bases(cls) \/ "requests.Timeout" \in Bases(cls) THEN "retry"
    ELSE IF "requests.RequestException" \in Bases(cls) THEN "request"
    ELSE "uncaught"

(* The except clause of login's try statement that handles an exception of *)
(* class cls: the first clause, in source order, naming one of its bases.  *)
(* "ConnectionError" is the builtin: the module imports no other.          *)
ExceptClause(cls) ==
    IF "ConnectionError" \in Bases(cls) THEN "retry"
    ELSE IF "requests.Timeout" \in Bases(cls) THEN "timeout"
    ELSE IF "requests.RequestException" \in Bases(cls) THEN "request"
    ELSE "uncaught"

(* What the try body of one loop iteration raises for POST outcome o *)
TryRaises(o) ==
    IF o.kind = "raise" THEN Some(o.cls)
    ELSE IF o.code = 200 THEN None
    ELSE IF RaiseForStatus(o.code) THEN Some("requests.HTTPError")
    ELSE None

(* Fault injection for C9: search and search_multi going on after a       *)
(* failed login instead of returning.                                      *)
LoginRaises_GoOn(cls) ==
    /\ login_exc' = Some(cls)
    /\ IF op = "login"
       THEN pc' = "raised" /\ exc' = Some(cls) /\ ret' = ret
       ELSE pc' = "get" /\ exc' = exc /\ ret' = ret

(* login raises cls: the caller's handler.  search and search_multi wrap   *)
(* the call in "except Exception"; search returns None, search_multi [].   *)
LoginRaises(cls) ==
    /\ login_exc' = Some(cls)
    /\ IF op = "login" \/ "Exception" \notin Bases(cls)
       THEN pc' = "raised" /\ exc' = Some(cls) /\ ret' = ret
       ELSE /\ pc' = "done"
            /\ exc' = exc
            /\ ret' = IF op = "search" THEN None ELSE Some(<<>>)

(* line 37-46 *)
LoginEnter ==
    /\ pc = "call_login"
    /\ logins' = logins + 1
    /\ IF CredentialsOk(user, password)
       THEN pc' = "login" /\ UNCHANGED <<login_exc, ret, exc>>
       ELSE LoginRaises("ValueError")
    /\ UNCHANGED <<op, user, password, retries, backoff_factor, provide_infohash,
                   provide_files, queries, attempt, outs, sleeps, pages, fetched, data>>

(* One iteration of "while attempt <= retries": the POST, the status test  *)
(* and the except clauses (lines 47-76).  On return into search or         *)
(* search_multi the frame of login (attempt, and the record of its POSTs   *)
(* and sleeps) is discarded.                                               *)
LoginPost ==
    /\ pc = "login"
    /\ attempt <= retries
    /\ Len(outs) < MaxPosts
    /\ \E o \in PostOutcomes :
         LET r == TryRaises(o) IN
         IF o.kind = "status" /\ o.code = 200
         THEN /\ IF op = "login"
                 THEN /\ pc' = "done"
                      /\ outs' = Append(outs, o)
                      /\ UNCHANGED <<attempt, sleeps>>
                 ELSE /\ pc' = "get"
                      /\ outs' = <<>>
                      /\ attempt' = 0
                      /\ sleeps' = <<>>
              /\ UNCHANGED <<login_exc, ret, exc>>
         ELSE /\ outs' = Append(outs, o)
              /\ IF r = None
                 THEN UNCHANGED <<pc, attempt, sleeps, login_exc, ret, exc>>
                 ELSE IF ExceptClause(r[1]) = "retry"
                 THEN /\ attempt' = attempt + 1
                      /\ IF attempt' > retries
                         THEN LoginRaises(r[1]) /\ sleeps' = sleeps
                         ELSE /\ sleeps' = Append(sleeps, Pow(backoff_factor, attempt'))
                              /\ UNCHANGED <<pc, login_exc, ret, exc>>
                 ELSE LoginRaises(r[1]) /\ UNCHANGED <<attempt, sleeps>>
    /\ UNCHANGED <<op, user, password, retries, backoff_factor, provide_infohash,
                   provide_files, queries, logins, pages, fetched, data>>

(* line 78: the loop condition is false *)
LoginExhausted ==
    /\ pc = "login"
    /\ attempt > retries
    /\ LoginRaises("RuntimeError")
    /\ UNCHANGED <<op, user, password, retries, backoff_factor, provide_infohash,
                   provide_files, queries, attempt, outs, sleeps, logins, pages,
                   fetched, data>>

----------------------------------------------------------------------------
(* The remote site: torrent downloads *)

(* Fault injection for C6: line 122 testing for the magnet-link prefix *)
DownloadPrefix_Magnet == <<"/magnetlink">>

(* line 122 / 183: href.startswith('/download.php') *)
DownloadPrefix == <<"/download.php">>
HrefT1 == <<"/download.php", "/101/a.torrent">>
HrefT2 == <<"/download.php", "/102/b.torrent">>
HrefGone == <<"/download.php", "/404/c.torrent">>
HrefDown == <<"/download.php", "/500/d.torrent">>
HrefMagnet == <<"/magnetlink", "/download_go.php?id=101">>

(* A torrentool Torrent decoded from a torrent file, and the placeholder   *)
(* class of get_torrent (lines 219-221: it defines no "files").            *)
Torrent(id) ==
    [magnet_link |-> Some(<<"magnet:?xt=urn:btih:", id>>),
     info_hash |-> Some(id),
     files |-> Some(<<<<id, "video.mkv">>, <<id, "subs.srt">>>>)]
DummyTorrent == [magnet_link |-> None, info_hash |-> None]

(* The site's answer to GET base + href *)
SiteGet(href) ==
    CASE href = HrefT1 -> [kind |-> "status", code |-> 200, content |-> "T1", cls |-> "-"]
      [] href = HrefT2 -> [kind |-> "status", code |-> 200, content |-> "T2", cls |-> "-"]
      [] href = HrefDown ->
            [kind |-> "raise", code |-> 0, content |-> "-", cls |-> "requests.ConnectionError"]
      [] OTHER -> [kind |-> "status", code |-> 404, content |-> "-", cls |-> "-"]

(* get_torrent (lines 211-223): the exception it lets through, or the      *)
(* object it returns.                                                      *)
GetTorrent(href) ==
    LET response == SiteGet(href) IN
    IF response.kind = "raise" THEN [exc |-> Some(response.cls), torrent |-> DummyTorrent]
    ELSE IF response.code = 200
         THEN [exc |-> None, torrent |-> Torrent(response.content)]
         ELSE [exc |-> None, torrent |-> DummyTorrent]

----------------------------------------------------------------------------
(* The remote site: result pages.  A page lists a torrent once: its rows   *)
(* are distinct.  A row (tr) is described by what the     *)
(* parser reads from it: the number of its td cells, the text of the       *)
(* a > b element of the second cell (None: no such element), the hrefs of  *)
(* the anchors in the div of the second cell (None: no div), the texts of  *)
(* the cells tds[-2] and tds[-4], and the src of the images.               *)

Header == [tds |-> 0, name |-> None, div |-> None, seeds |-> "", size |-> "", imgs |-> <<>>]
RowA == [tds |-> 8, name |-> Some("A"), div |-> Some(<<HrefMagnet, HrefT1, HrefGone>>),
         seeds |-> "12", size |-> "1.4 GB",
         imgs |-> <<<<"/pic/", "free.png">>, <<"/pic/", "bgaudio.png">>>>]
RowM == [tds |-> 8, name |-> Some("M"), div |-> Some(<<HrefMagnet>>),
         seeds |-> "3", size |-> "2 GB", imgs |-> <<>>]
RowX == [tds |-> 8, name |-> Some("X"), div |-> Some(<<HrefDown, HrefT2>>),
         seeds |-> "1", size |-> "9 GB", imgs |-> <<>>]
RowBad == [tds |-> 8, name |-> None, div |-> Some(<<HrefT2>>),
           seeds |-> "5", size |-> "1 GB", imgs |-> <<>>]
Rows == {RowA, RowM, RowX, RowBad}

Pages ==
    {[status |-> 503, table |-> None], [status |-> 200, table |-> None],
     [status |-> 200, table |-> Some(<<>>)]}
    \cup {[status |-> 200, table |-> Some(<<Header>> \o rs)] : rs \in SeqsUpTo(Rows, MaxRows)}

----------------------------------------------------------------------------
(* search and search_multi: parsing a row *)

(* lines 113-119 / 172-179: the exception the cell accesses raise *)
ParseRow(tr) ==
    IF tr.tds < 2 THEN Some("IndexError")
    ELSE IF tr.name = None \/ tr.div = None THEN Some("AttributeError")
    ELSE IF tr.tds < 4 THEN Some("IndexError")
    ELSE None

(* line 119 / 179 *)
Audio(tr) == \E i \in 1..Len(tr.imgs) : EndsWith(tr.imgs[i], <<"bgaudio.png">>)

(* lines 125-133 / 185-193: the dict appended for one anchor *)
Record(tr, torrent, infohash, files) ==
    [name |-> tr.name[1],
     magnetlink |-> torrent.magnet_link,
     seeders |-> tr.seeds,
     bg_audio |-> Audio(tr),
     size |-> tr.size,
     infohash |-> IF infohash THEN torrent.info_hash ELSE None,
     files |-> IF files THEN torrent.files ELSE None]

(* lines 120-133 / 181-193: "for href in hrefs" from anchor i on.  acc is  *)
(* [data, fetched, exc]; the loop ends at the first exception.             *)
RECURSIVE AnchorLoop(_, _, _, _)
AnchorLoop(tr, i, opts, acc) ==
    IF i > Len(tr.div[1]) THEN acc
    ELSE LET href == tr.div[1][i] IN
         IF ~StartsWith(href, DownloadPrefix) THEN AnchorLoop(tr, i + 1, opts, acc)
         ELSE LET t == GetTorrent(href)
                  f == Append(acc.fetched, href)
              IN  IF t.exc # None
                  THEN [acc EXCEPT !.fetched = f, !.exc = t.exc]
                  ELSE IF opts.files /\ "files" \notin DOMAIN t.torrent
                  THEN [acc EXCEPT !.fetched = f, !.exc = Some("AttributeError")]
                  ELSE AnchorLoop(tr, i + 1, opts,
                           [acc EXCEPT !.fetched = f,
                                       !.data = Append(@, Record(tr, t.torrent,
                                                                 opts.infohash, opts.files))])

(* The body of "for tr in trs" *)
RowBody(tr, opts, acc) ==
    LET e == ParseRow(tr) IN
    IF e # None THEN [acc EXCEPT !.exc = e] ELSE AnchorLoop(tr, 1, opts, acc)

(* search, lines 112-133: no handler, the first exception leaves the loop *)
RECURSIVE SearchRows(_, _, _, _)
SearchRows(trs, i, opts, acc) ==
    IF i > Len(trs) \/ acc.exc # None THEN acc
    ELSE SearchRows(trs, i + 1, opts, RowBody(trs[i], opts, acc))

(* Fault injection for C7: no handler around the body of a row *)
RowTry_NoHandler(tr, opts, acc) == RowBody(tr, opts, acc)

(* search_multi, lines 170-196: "except Exception: continue" around the    *)
(* body of each row.                                                       *)
RowTry(tr, opts, acc) ==
    LET a == RowBody(tr, opts, acc) IN
    IF a.exc # None /\ "Exception" \in Bases(a.exc[1]) THEN [a EXCEPT !.exc = None] ELSE a

RECURSIVE MultiRows(_, _, _, _)
MultiRows(trs, i, opts, acc) ==
    IF i > Len(trs) \/ acc.exc # None THEN acc
    ELSE MultiRows(trs, i + 1, opts, RowTry(trs[i], opts, acc))

(* trs[1:] *)
SkipHeader(trs) == IF trs = <<>> THEN <<>> ELSE Tail(trs)

Opts == [infohash |-> provide_infohash, files |-> provide_files]

----------------------------------------------------------------------------
(* search, lines 94-134, after login returned *)
SearchGet ==
    /\ pc = "get"
    /\ op = "search"
    /\ \E page \in Pages :
         /\ pages' = Append(pages, page)
         /\ IF page.status # 200 \/ page.table = None
            THEN /\ pc' = "done"
                 /\ ret' = Some(data)
                 /\ UNCHANGED <<data, fetched, exc>>
            ELSE LET a == SearchRows(SkipHeader(page.table[1]), 1, Opts,
                                     [data |-> data, fetched |-> fetched, exc |-> None])
                 IN  /\ data' = a.data
                     /\ fetched' = a.fetched
                     /\ IF a.exc # None
                        THEN pc' = "raised" /\ exc' = a.exc /\ ret' = ret
                        ELSE pc' = "done" /\ ret' = Some(a.data) /\ exc' = exc
    /\ UNCHANGED <<op, user, password, retries, backoff_factor, provide_infohash,
                   provide_files, queries, attempt, outs, sleeps, logins, login_exc>>

(* search_multi, lines 153-196: one iteration of "for ss in queries" *)
MultiGet ==
    /\ pc = "get"
    /\ op = "search_multi"
    /\ Len(pages) < Len(queries)
    /\ \E page \in Pages :
         /\ pages' = Append(pages, page)
         /\ IF page.status # 200 \/ page.table = None
            THEN UNCHANGED <<pc, data, fetched, exc>>
            ELSE LET a == MultiRows(SkipHeader(page.table[1]), 1, Opts,
                                    [data |-> data, fetched |-> fetched, exc |-> None])
                 IN  /\ data' = a.data
                     /\ fetched' = a.fetched
                     /\ IF a.exc # None
                        THEN pc' = "raised" /\ exc' = a.exc
                        ELSE UNCHANGED <<pc, exc>>
    /\ UNCHANGED <<op, user, password, retries, backoff_factor, provide_infohash,
                   provide_files, queries, attempt, outs, sleeps, logins, login_exc, ret>>

(* search_multi, line 198 *)
MultiReturn ==
    /\ pc = "get"
    /\ op = "search_multi"
    /\ Len(pages) = Len(queries)
    /\ pc' = "done"
    /\ ret' = Some(data)
    /\ UNCHANGED <<op, user, password, retries, backoff_factor, provide_infohash,
                   provide_files, queries, attempt, outs, sleeps, logins, login_exc,
                   pages, fetched, data, exc>>

----------------------------------------------------------------------------
(* One call of a public method on a new object *)

Users == {"", "murrou"}
Passwords == {"", "secret"}
BackoffFactors == {2, 3}

Init ==
    /\ op \in {"login", "search", "search_multi"}
    /\ user \in Users
    /\ password \in Passwords
    /\ retries \in IF op = "login" THEN -1..MaxRetries ELSE {DefaultRetries}
    /\ backoff_factor \in IF op = "login" THEN BackoffFactors ELSE {DefaultBackoff}
    /\ provide_infohash \in IF op = "login" THEN {FALSE} ELSE BOOLEAN
    /\ provide_files \in IF op = "login" THEN {FALSE} ELSE BOOLEAN
    /\ queries \in IF op = "login" THEN {<<>>}
                   ELSE IF op = "search" THEN {<<1>>}
                   ELSE {[i \in 1..n |-> i] : n \in 0..MaxQueries}
    /\ pc = "call_login"
    /\ attempt = 0
    /\ outs = <<>>
    /\ sleeps = <<>>
    /\ logins = 0
    /\ login_exc = None
    /\ pages = <<>>
    /\ fetched = <<>>
    /\ data = <<>>
    /\ ret = None
    /\ exc = None

Next == LoginEnter \/ LoginPost \/ LoginExhausted \/ SearchGet \/ MultiGet \/ MultiReturn

Spec == Init /\ [][Next]_vars

----------------------------------------------------------------------------
(* What the claims speak of *)

Terminated == pc \in {"done", "raised"}
LoginSucceeded == logins = 1 /\ login_exc = None /\ pc \notin {"call_login", "login"}
PageOk(page) == page.status = 200 /\ page.table # None
DataRows(page) == SubSeq(page.table[1], 2, Len(page.table[1]))

IsDownload(href) == Len(href) >= 1 /\ href[1] = "/download.php"
IsMagnetLink(href) == Len(href) >= 1 /\ href[1] = "/magnetlink"
IsRecognized(href) == IsDownload(href) \/ IsMagnetLink(href)
WellFormed(tr) == tr.tds >= 4 /\ tr.name # None /\ tr.div # None
Anchors(tr) == IF tr.div = None THEN <<>> ELSE tr.div[1]
Matching(tr) == SelectSeq(Anchors(tr), IsDownload)

(* The resolution of a matching anchor succeeds: the download is answered, *)
(* and with a torrent file when the file list is asked for.                *)
Resolves(href) ==
    /\ SiteGet(href).kind = "status"
    /\ SiteGet(href).code = 200 \/ ~provide_files

(* Index, among the matching anchors of tr, of the first whose resolution  *)
(* fails; one past the last when none fails.                               *)
FirstFailure(tr) ==
    LET m == Matching(tr)
        F == {i \in 1..Len(m) : ~Resolves(m[i])}
    IN  IF F = {} THEN Len(m) + 1 ELSE CHOOSE i \in F : \A j \in F : i <= j
RowFails(tr) == ~WellFormed(tr) \/ FirstFailure(tr) <= Len(Matching(tr))

ExpectedRecord(tr, href) ==
    LET r == SiteGet(href)
        ok == r.kind = "status" /\ r.code = 200
    IN  [name |-> tr.name[1],
         magnetlink |-> IF ok THEN Some(<<"magnet:?xt=urn:btih:", r.content>>) ELSE None,
         seeders |-> tr.seeds,
         bg_audio |-> \E i \in 1..Len(tr.imgs) : Last(tr.imgs[i]) = "bgaudio.png",
         size |-> tr.size,
         infohash |-> IF ok /\ provide_infohash THEN Some(r.content) ELSE None,
         files |-> IF ok /\ provide_files THEN Torrent(r.content).files ELSE None]

(* Records of the matching anchors of tr that precede its first failure *)
RowRecords(tr) ==
    IF ~WellFormed(tr) THEN <<>>
    ELSE SubSeq([i \in 1..Len(Matching(tr)) |-> ExpectedRecord(tr, Matching(tr)[i])],
                1, FirstFailure(tr) - 1)
(* Matching anchors of tr up to and including its first failure *)
RowFetches(tr) ==
    IF ~WellFormed(tr) THEN <<>>
    ELSE SubSeq(Matching(tr), 1, IF RowFails(tr) THEN FirstFailure(tr) ELSE Len(Matching(tr)))
(* One record per anchor of tr for which P holds, failures disregarded *)
AllRecords(tr, P(_)) ==
    LET m == SelectSeq(Anchors(tr), P)
    IN  [i \in 1..Len(m) |-> ExpectedRecord(tr, m[i])]

RECURSIVE Flat(_, _, _)
Flat(F(_), rows, n) == IF n = 0 THEN <<>> ELSE Flat(F, rows, n - 1) \o F(rows[n])

(* Index of the first row that fails; one past the last when none does *)
FirstFailingRow(rows) ==
    LET F == {i \in 1..Len(rows) : RowFails(rows[i])}
    IN  IF F = {} THEN Len(rows) + 1 ELSE CHOOSE i \in F : \A j \in F : i <= j
Summary(rec) == [name |-> rec.name, seeders |-> rec.seeders, size |-> rec.size,
                 bg_audio |-> rec.bg_audio]

----------------------------------------------------------------------------
(* Claims about login *)

ConnectionFailure(o) ==
    /\ o.kind = "raise"
    /\ "requests.ConnectionError" \in Bases(o.cls) \/ "ConnectionError" \in Bases(o.cls)
    /\ "requests.Timeout" \notin Bases(o.cls)
FailFast(o) ==
    /\ o.kind = "raise"
    /\ \/ "requests.Timeout" \in Bases(o.cls)
       \/ /\ "requests.RequestException" \in Bases(o.cls)
          /\ "requests.ConnectionError" \notin Bases(o.cls)

(* C1: after n consecutive connection failures of the POST, n <= retries,  *)
(* login is still retrying and has slept backoff_factor^k before the k-th  *)
(* retry, for every k <= n; after the (retries+1)-th it has raised without *)
(* a further sleep; it never posts more than retries+1 times.              *)
C1_BackoffLaw ==
    LET n == Len(outs) IN
    (n > 0 /\ \A i \in 1..n : ConnectionFailure(outs[i])) =>
        /\ n <= retries + 1
        /\ IF n <= retries
           THEN /\ pc = "login"
                /\ Len(sleeps) = n
                /\ \A k \in 1..n : sleeps[k] = Pow(backoff_factor, k)
           ELSE login_exc # None /\ Len(sleeps) = retries

(* C2: a POST answered with a status other than 200 is the last POST of    *)
(* the call, and the call has raised the HTTP error.                       *)
C2_Non200Raises ==
    \A i \in 1..Len(outs) :
        (outs[i].kind = "status" /\ outs[i].code # 200) =>
            i = Len(outs) /\ login_exc = Some("requests.HTTPError")

(* C4: with an empty user or an empty password login raises ValueError     *)
(* before any POST and any sleep, whatever retries and backoff_factor.     *)
C4_EmptyCredentials ==
    ((user = "" \/ password = "") /\ pc # "call_login") =>
        /\ login_exc = Some("ValueError")
        /\ outs = <<>> /\ sleeps = <<>> /\ attempt = 0
        /\ pages = <<>> /\ fetched = <<>>
        /\ op = "login" => pc = "raised" /\ exc = Some("ValueError")
C4_Witness ==
    /\ op = "login" /\ user = "" /\ password = "secret" /\ retries = MaxRetries
    /\ pc = "raised" /\ login_exc = Some("ValueError") /\ outs = <<>>

(* C8: a POST that raises a timeout, or a request error that is neither a  *)
(* timeout nor a connection failure, ends login at once: login raises that *)
(* error, attempt and the sleeps are as before the POST; and once login    *)
(* has raised, no POST follows.                                            *)
C8_FailFast ==
    [][ /\ (Len(outs') = Len(outs) + 1 /\ FailFast(Last(outs'))) =>
            /\ login_exc' = Some(Last(outs').cls)
            /\ attempt' = attempt
            /\ sleeps' = sleeps
            /\ pc' \in {"raised", "done"}
            /\ op = "login" => pc' = "raised" /\ exc' = login_exc'
        /\ login_exc # None => outs' = outs /\ sleeps' = sleeps
      ]_vars
C8_Witness ==
    /\ op = "login" /\ pc = "raised" /\ retries = 2 /\ attempt = 1
    /\ Len(outs) = 2 /\ Last(outs) = Raised("requests.ReadTimeout")
    /\ login_exc = Some("requests.ReadTimeout") /\ Len(sleeps) = 1

(* C10: a login with non-empty credentials and retries >= 0 sends at most  *)
(* retries+1 POSTs, attempt never exceeds retries+1, and every POST but    *)
(* the first follows an advance of attempt.                                *)
C10_BoundedPosts ==
    (user # "" /\ password # "" /\ retries >= 0) =>
        /\ Len(outs) <= retries + 1
        /\ attempt <= retries + 1
        /\ Len(outs) <= attempt + 1

----------------------------------------------------------------------------
(* Claims about search *)

(* C5: when login fails inside search, search returns the empty list and   *)
(* sends no search GET and no torrent download.                            *)
C5_EmptyOnLoginFailure ==
    (op = "search" /\ login_exc # None) =>
        pc = "done" /\ ret = Some(<<>>) /\ pages = <<>> /\ fetched = <<>>

(* C3: every torrent download answered with a status other than 200 has    *)
(* its record in the result list, with magnetlink, infohash and files all  *)
(* None, whatever provide_infohash and provide_files.                      *)
C3_PlaceholderRecord ==
    Cardinality({i \in 1..Len(data) : /\ data[i].magnetlink = None
                                      /\ data[i].infohash = None
                                      /\ data[i].files = None})
      = Cardinality({i \in 1..Len(fetched) : /\ SiteGet(fetched[i]).kind = "status"
                                             /\ SiteGet(fetched[i]).code # 200})

SearchRan ==
    /\ op = "search" /\ Terminated /\ login_exc = None
    /\ Len(pages) = 1 /\ PageOk(pages[1])
RecognizedRecords(tr) == AllRecords(tr, IsRecognized)

----------------------------------------------------------------------------
(* Claims about search_multi *)

MultiRan == op = "search_multi" /\ Terminated /\ login_exc = None
QueryFails(page) ==
    \/ ~PageOk(page)
    \/ \E i \in 1..Len(DataRows(page)) : RowFails(DataRows(page)[i])
DownloadRecords(tr) == AllRecords(tr, IsDownload)
(* Records of a query that is dropped whole when anything in it fails *)
QueryRecords(page) ==
    IF QueryFails(page) THEN <<>>
    ELSE Flat(DownloadRecords, DataRows(page), Len(DataRows(page)))
(* Records of a query of which only the failing rows are cut short *)
PageRecords(page) ==
    IF ~PageOk(page) THEN <<>> ELSE Flat(RowRecords, DataRows(page), Len(DataRows(page)))

(* C7 as stated: a query in which something fails is skipped, the other    *)
(* queries are all fetched and search_multi returns their records, in      *)
(* query order.                                                            *)
C7_QuerySkipped ==
    MultiRan =>
        /\ pc = "done"
        /\ Len(pages) = Len(queries)
        /\ ret = Some(Flat(QueryRecords, pages, Len(pages)))

(* C7 as amended: a failure never aborts the batch; a non-200 response or  *)
(* a missing table skips the query, a failure in a row skips the rest of   *)
(* that row only; every query is fetched and search_multi returns the      *)
(* records accumulated, in query, row and anchor order.                    *)
C7_RowSkipped ==
    /\ (op = "search_multi" /\ login_exc = None) => pc # "raised"
    /\ MultiRan =>
        /\ Len(pages) = Len(queries)
        /\ ret = Some(Flat(PageRecords, pages, Len(pages)))
C7_Witness ==
    /\ MultiRan /\ pc = "done" /\ Len(queries) = 2 /\ provide_files
    /\ pages[1].table = Some(<<Header, RowBad, RowA>>)
    /\ pages[2].table = Some(<<Header, RowX, RowA>>)
    /\ Len(ret[1]) = 2

ParsedMatching(tr) == IF WellFormed(tr) THEN Matching(tr) ELSE <<>>
AllMatching(page) ==
    IF ~PageOk(page) THEN <<>> ELSE Flat(ParsedMatching, DataRows(page), Len(DataRows(page)))
PageFetches(page) ==
    IF ~PageOk(page) THEN <<>> ELSE Flat(RowFetches, DataRows(page), Len(DataRows(page)))
LoginFirst ==
    /\ logins <= 1
    /\ pc # "call_login" => logins = 1
    /\ (pages # <<>> \/ fetched # <<>>) => LoginSucceeded

(* C9 as stated: login is called once, before the first search GET; no GET *)
(* and no download is sent unless it succeeded; get_torrent is called once *)
(* for every matching anchor of the rows that parse.                       *)
C9_OncePerAnchor ==
    op = "search_multi" =>
        /\ LoginFirst
        /\ pc = "done" => fetched = Flat(AllMatching, pages, Len(pages))

(* C9 as amended: as above, but get_torrent is called once for every       *)
(* matching anchor of a row that parses up to and including the first      *)
(* anchor whose resolution fails, and for no other anchor.                 *)
C9_OncePerResolvedAnchor ==
    op = "search_multi" =>
        /\ LoginFirst
        /\ pc = "done" => fetched = Flat(PageFetches, pages, Len(pages))
C9_Witness ==
    /\ op = "search_multi" /\ pc = "done" /\ logins = 1 /\ Len(pages) = 2
    /\ pages[1].table = Some(<<Header, RowX, RowA>>)
    /\ pages[2].table = Some(<<Header, RowBad>>)
    /\ fetched = <<HrefDown, HrefT1, HrefGone>>

====
